---- MODULE Spec2Model ----
(***************************************************************************)
(* Verification model of two brpc primitives:                              *)
(*   - brpc::SocketMessage / SocketMessagePtr (src/src/brpc/socket_message.h)*)
(*     together with the per-connection write path that consumes them;     *)
(*   - bthread_make_fcontext / bthread_jump_fcontext                        *)
(*     (src/src/bthread/context.cpp), the stackful context switch.         *)
(***************************************************************************)
EXTENDS Integers, Sequences, FiniteSets, TLC

VARIABLES
    \* ---- SocketMessage part ----
    ptr,        \* SocketMessagePtr objects: wrapper -> owned message or NULL
    palive,     \* wrapper lifetime: "unborn" | "live" | "dead"
    queue,      \* the connection's outbound queue (raw SocketMessage pointers)
    trace,      \* the write path's log of AppendAndDestroySelf calls/returns
    ptrlog,     \* message -> log of the calls/returns a wrapper made on it
    inflight,   \* calls that have started and not yet returned
    out,        \* the outbound byte stream of the connection
    failed,     \* the socket is broken / torn down
    signalled,  \* messages whose id_wait was signalled with an error
    enq,        \* order in which the enqueues took effect
    discarded,  \* wrapper -> message it still owned when it was destroyed
    wrapped,    \* message -> wrappers constructed from its raw pointer
    hint,       \* << >>, or <<h>>: the last EstimatedByteSize() result
    \* ---- bthread context part ----
    arch,       \* the build: "x86_64" | "i386" | "arm32" | "arm64"
    regs,       \* the CPU registers of the OS thread
    mem,        \* memory: byte address -> stored word (written cells only)
    pc,         \* where the OS thread executes
    cur,        \* the context that is current
    status,     \* context -> "none" | "fresh" | "suspended" | "running"
    entryOf,    \* context -> entry function given to make_fcontext
    snap,       \* context -> its registers at its last jump call
    last,       \* the most recent jump
    halted,     \* the process has called _exit
    jumps       \* number of jumps made

msgvars == <<ptr, palive, queue, trace, ptrlog, inflight, out, failed,
             signalled, enq, discarded, wrapped, hint>>

ctxvars == <<arch, regs, mem, pc, cur, status, entryOf, snap, last, halted,
             jumps>>

vars == <<msgvars, ctxvars>>

(***************************************************************************)
(* Bounds                                                                  *)
(***************************************************************************)
NumMsgs == 3
\* how many wrappers code may construct from one raw pointer
MaxWraps == 2

NULL == 0
Msg == 1..NumMsgs
Wrapper == 1..NumMsgs

(***************************************************************************)
(* SocketMessage                                                           *)
(***************************************************************************)
\* The bytes message m appends to the buffer it is given: a trivial
\* generator appending its own label.
Bytes(m) == <<m>>
\* SocketMessage::EstimatedByteSize(): the default, and a wrong override
DefaultEstimate == 0
Estimates == {DefaultEstimate, 7}

\* One invocation of SocketMessage::AppendAndDestroySelf(out, sock).
\*   sock = TRUE  : a live Socket*;  sock = FALSE : NULL
\*   buf          : "stream" (the write path's buffer) or "dummy_buf"
\*   by           : "writer" (the connection's write path) or "ptr"
AppendAndDestroySelf(m, buf, sock, by) ==
    [msg |-> m, buf |-> buf, sock |-> sock, by |-> by]

\* details::SocketMessageDeleter::operator()(msg): the calls it makes.
NoCallDeleter(m, by) == << >>

LiveSocketDeleter(m, by) ==
    << AppendAndDestroySelf(m, "stream", TRUE, by) >>

SocketMessageDeleter(m, by) ==
    << AppendAndDestroySelf(m, "dummy_buf", FALSE, by) >>

\* all logged events; the order between the logs carries no meaning
RECURSIVE PtrTrace(_)
PtrTrace(n) == IF n = 0 THEN << >> ELSE PtrTrace(n - 1) \o ptrlog[n]
Events == trace \o PtrTrace(NumMsgs)
Calls == SelectSeq(Events, LAMBDA e : e.ev = "call")
Returns == SelectSeq(Events, LAMBDA e : e.ev = "ret")
CallsOf(m) == SelectSeq(Calls, LAMBDA e : e.call.msg = m)
Count(m) == Len(CallsOf(m))
Range(s) == {s[i] : i \in 1..Len(s)}
Started == {e.call.msg : e \in Range(Calls)}
Finished == {e.call.msg : e \in Range(Returns)}

CallEvents(cs) ==
    [i \in 1..Len(cs) |-> [ev |-> "call", call |-> cs[i], st |-> "none"]]

CallSet(cs) == {cs[i] : i \in 1..Len(cs)}

\* a release that leaves the pointer in the wrapper
KeepPointer(p, w) == p

\* SocketMessagePtr<T>::release(): the wrapper gives up its pointer.
release(p, w) == [p EXCEPT ![w] = NULL]

\* an error that reaches the waiters of every message
SignalledSiblings(c, st) == IF st = "error" THEN Msg ELSE {}

\* Who is signalled when a call returns status st: on the normal path an
\* error status signals the id_wait of that message; the deleter casts the
\* status to void.
Signalled(c, st) ==
    IF c.buf = "dummy_buf" THEN {}
    ELSE IF st = "error" THEN {c.msg} ELSE {}

\* What reaches the outbound stream when a call returns: the bytes written
\* to the write path's buffer; dummy_buf is a local that is dropped.
AppendedAlways(c) == Bytes(c.msg)

\* bytes cut to the size the hint announced
AppendedUpToHint(c) ==
    IF c.buf # "stream" THEN << >>
    ELSE IF hint = << >> \/ hint[1] >= Len(Bytes(c.msg)) THEN Bytes(c.msg)
    ELSE SubSeq(Bytes(c.msg), 1, hint[1])

Appended(c) == IF c.buf = "stream" THEN Bytes(c.msg) ELSE << >>

(***************************************************************************)
(* The connection's write path                                             *)
(***************************************************************************)
WriterCalls == {c \in inflight : c.by = "writer"}

AlwaysIdle == TRUE

\* consumer-drain is single-writer: the writer takes the next message only
\* when its previous call has returned.
WriterIdle == WriterCalls = {}

LastQueued(q) == q[Len(q)]

\* strict FIFO dequeue
NextToWrite(q) == Head(q)

RestOf(q) == SelectSeq(q, LAMBDA m : m # NextToWrite(q))

InitMsg ==
    /\ ptr = [w \in Wrapper |-> NULL]
    /\ palive = [w \in Wrapper |-> "unborn"]
    /\ queue = << >>
    /\ trace = << >>
    /\ ptrlog = [m \in Msg |-> << >>]
    /\ inflight = {}
    /\ out = << >>
    /\ failed = FALSE
    /\ signalled = {}
    /\ enq = << >>
    /\ discarded = [w \in Wrapper |-> NULL]
    /\ wrapped = [m \in Msg |-> 0]
    /\ hint = << >>

\* SocketMessagePtr(T* p): protocol code creates message w and wraps it.
NewSocketMessagePtr(w) ==
    /\ palive[w] = "unborn"
    /\ palive' = [palive EXCEPT ![w] = "live"]
    /\ ptr' = [ptr EXCEPT ![w] = w]
    /\ wrapped' = [wrapped EXCEPT ![w] = 1]
    /\ UNCHANGED <<queue, trace, ptrlog, inflight, out, failed, signalled,
                  enq, discarded, hint, ctxvars>>

\* Socket.Write(msg) accepts the message: ownership leaves the wrapper and
\* the raw pointer is appended to the connection's queue.
WriteAccepted(w) ==
    /\ palive[w] = "live"
    /\ ptr[w] # NULL
    /\ ~failed
    /\ queue' = Append(queue, ptr[w])
    /\ enq' = Append(enq, ptr[w])
    /\ ptr' = release(ptr, w)
    /\ UNCHANGED <<palive, trace, ptrlog, inflight, out, failed, signalled,
                  discarded, wrapped, hint, ctxvars>>

\* Socket.Write(msg) rejects the message: the wrapper keeps it.
WriteRejected(w) ==
    /\ palive[w] = "live"
    /\ ptr[w] # NULL
    /\ palive' = [palive EXCEPT ![w] = "rejected"]
    /\ UNCHANGED <<ptr, queue, trace, ptrlog, inflight, out, failed,
                  signalled, enq, discarded, wrapped, hint, ctxvars>>

\* ~SocketMessagePtr(): unique_ptr's destructor runs the deleter on a
\* non-null pointer and on nothing otherwise.
DestroyWrapper(w) ==
    /\ palive[w] \in {"live", "rejected"}
    /\ LET cs == IF ptr[w] # NULL THEN SocketMessageDeleter(ptr[w], "ptr")
                 ELSE << >>
       IN /\ ptrlog' = IF ptr[w] # NULL
                       THEN [ptrlog EXCEPT ![ptr[w]] = @ \o CallEvents(cs)]
                       ELSE ptrlog
          /\ inflight' = inflight \cup CallSet(cs)
    /\ discarded' = [discarded EXCEPT ![w] = ptr[w]]
    /\ ptr' = [ptr EXCEPT ![w] = NULL]
    /\ palive' = [palive EXCEPT ![w] = "dead"]
    /\ UNCHANGED <<trace, queue, out, failed, signalled, enq,
                  wrapped, hint, ctxvars>>

\* The writer dequeues the next message and starts generating it with the
\* live socket.
WriterBegin ==
    /\ ~failed
    /\ queue # << >>
    /\ WriterIdle
    /\ LET m == NextToWrite(queue)
           c == AppendAndDestroySelf(m, "stream", TRUE, "writer")
       IN /\ queue' = RestOf(queue)
          /\ trace' = trace \o CallEvents(<<c>>)
          /\ inflight' = inflight \cup {c}
    /\ UNCHANGED <<ptrlog, ptr, palive, out, failed, signalled, enq,
                  discarded, wrapped, hint, ctxvars>>

\* The socket is broken: every message still queued is abandoned, in order.
AbandonBegin ==
    /\ failed
    /\ queue # << >>
    /\ WriterIdle
    /\ LET m == NextToWrite(queue)
           cs == SocketMessageDeleter(m, "writer")
       IN /\ queue' = RestOf(queue)
          /\ trace' = trace \o CallEvents(cs)
          /\ inflight' = inflight \cup CallSet(cs)
    /\ UNCHANGED <<ptrlog, ptr, palive, out, failed, signalled, enq,
                  discarded, wrapped, hint, ctxvars>>

\* AppendAndDestroySelf returns status st; the message no longer exists.
Return(c, st) ==
    /\ c \in inflight
    /\ inflight' = inflight \ {c}
    /\ LET e == [ev |-> "ret", call |-> c, st |-> st]
       IN /\ trace' = IF c.by = "writer" THEN Append(trace, e) ELSE trace
          /\ ptrlog' = IF c.by = "writer" THEN ptrlog
                       ELSE [ptrlog EXCEPT ![c.msg] = Append(@, e)]
    /\ out' = out \o Appended(c)
    /\ signalled' = signalled \cup Signalled(c, st)
    /\ UNCHANGED <<ptr, palive, queue, failed, enq, discarded,
                  wrapped, hint, ctxvars>>

\* The connection breaks or is torn down.
SetFailed ==
    /\ ~failed
    /\ failed' = TRUE
    /\ UNCHANGED <<ptr, palive, queue, trace, ptrlog, inflight, out,
                  signalled, enq, discarded, wrapped, hint, ctxvars>>

\* m->EstimatedByteSize() on a message that still exists: the default
\* returns 0, an overriding message type returns what it likes.
EstimatedByteSize(m, h) ==
    /\ wrapped[m] > 0
    /\ Count(m) = 0
    /\ hint' = <<h>>
    /\ UNCHANGED <<ptr, palive, queue, trace, ptrlog, inflight, out, failed,
                  signalled, enq, discarded, wrapped, ctxvars>>

NextMsg ==
    \/ \E w \in Wrapper : NewSocketMessagePtr(w)
    \/ \E w \in Wrapper : WriteAccepted(w)
    \/ \E w \in Wrapper : WriteRejected(w)
    \/ \E w \in Wrapper : DestroyWrapper(w)
    \/ WriterBegin
    \/ AbandonBegin
    \/ \E c \in inflight, st \in {"ok", "error"} : Return(c, st)
    \/ SetFailed
    \/ \E m \in Msg, h \in Estimates : EstimatedByteSize(m, h)

(***************************************************************************)
(* The wrapper's own operations (inherited from std::unique_ptr)           *)
(***************************************************************************)
\* static type of a wrapper variable: SocketMessagePtr<T> or SocketMessagePtr<>
Typed(w) == w % 2 = 1

\* a move that copies the pointer and leaves the source as it was
CopyFrom(p, a, b) == [p EXCEPT ![b] = p[a]]

\* unique_ptr(unique_ptr&& u): takes u.release()
MoveFrom(p, a, b) == [release(p, a) EXCEPT ![b] = p[a]]

\* SocketMessagePtr(): an empty wrapper
NewEmptyPtr(w) ==
    /\ palive[w] = "unborn"
    /\ palive' = [palive EXCEPT ![w] = "live"]
    /\ UNCHANGED <<ptr, queue, trace, ptrlog, inflight, out, failed,
                  signalled, enq, discarded, wrapped, hint, ctxvars>>

\* SocketMessagePtr(p) on the raw pointer of a message that already exists
\* (kept from new, or obtained with get() or release())
WrapRaw(w, m) ==
    /\ palive[w] = "unborn"
    /\ wrapped[m] \in 1..(MaxWraps - 1)
    /\ palive' = [palive EXCEPT ![w] = "live"]
    /\ ptr' = [ptr EXCEPT ![w] = m]
    /\ wrapped' = [wrapped EXCEPT ![m] = @ + 1]
    /\ UNCHANGED <<queue, trace, ptrlog, inflight, out, failed, signalled,
                  enq, discarded, hint, ctxvars>>

\* SocketMessagePtr<X> b(std::move(a)), a and b of the same type
MoveConstruct(a, b) ==
    /\ palive[a] = "live"
    /\ palive[b] = "unborn"
    /\ Typed(a) = Typed(b)
    /\ ptr' = MoveFrom(ptr, a, b)
    /\ palive' = [palive EXCEPT ![b] = "live"]
    /\ UNCHANGED <<queue, trace, ptrlog, inflight, out, failed, signalled,
                  enq, discarded, wrapped, hint, ctxvars>>

\* SocketMessagePtr<> b(std::move(a)), a a SocketMessagePtr<T>: the base
\* class's move constructor binds to the derived wrapper
Convert(a, b) ==
    /\ palive[a] = "live"
    /\ palive[b] = "unborn"
    /\ Typed(a) /\ ~Typed(b)
    /\ ptr' = MoveFrom(ptr, a, b)
    /\ palive' = [palive EXCEPT ![b] = "live"]
    /\ UNCHANGED <<queue, trace, ptrlog, inflight, out, failed, signalled,
                  enq, discarded, wrapped, hint, ctxvars>>

\* b = std::move(a): reset(a.release()); the deleter runs on what b owned
MoveAssign(a, b) ==
    /\ a # b
    /\ palive[a] = "live" /\ palive[b] = "live"
    /\ Typed(b) => Typed(a)
    /\ LET cs == IF ptr[b] # NULL THEN SocketMessageDeleter(ptr[b], "ptr")
                 ELSE << >>
       IN /\ ptrlog' = IF ptr[b] # NULL
                       THEN [ptrlog EXCEPT ![ptr[b]] = @ \o CallEvents(cs)]
                       ELSE ptrlog
          /\ inflight' = inflight \cup CallSet(cs)
    /\ ptr' = MoveFrom(ptr, a, b)
    /\ UNCHANGED <<palive, queue, trace, out, failed, signalled, enq,
                  discarded, wrapped, hint, ctxvars>>

\* w.release(): the caller gets the raw pointer, the wrapper is empty
Release(w) ==
    /\ palive[w] = "live"
    /\ ptr[w] # NULL
    /\ ptr' = release(ptr, w)
    /\ UNCHANGED <<palive, queue, trace, ptrlog, inflight, out, failed,
                  signalled, enq, discarded, wrapped, hint, ctxvars>>

NextPtr ==
    \/ \E w \in Wrapper : NewSocketMessagePtr(w)
    \/ \E w \in Wrapper : NewEmptyPtr(w)
    \/ \E w \in Wrapper, m \in Msg : WrapRaw(w, m)
    \/ \E a, b \in Wrapper : MoveConstruct(a, b)
    \/ \E a, b \in Wrapper : Convert(a, b)
    \/ \E a, b \in Wrapper : MoveAssign(a, b)
    \/ \E w \in Wrapper : Release(w)
    \/ \E w \in Wrapper : DestroyWrapper(w)
    \/ \E c \in inflight, st \in {"ok", "error"} : Return(c, st)

(***************************************************************************)
(* Claims about SocketMessage                                              *)
(***************************************************************************)
WriterTrace == SelectSeq(trace, LAMBDA e : e.call.by = "writer")
WriterCallSeq == SelectSeq(WriterTrace, LAMBDA e : e.ev = "call")
NormalReturns ==
    SelectSeq(Returns, LAMBDA e : e.call.buf = "stream")
Consumed == Range(enq) \ Range(queue)
Quiescent == queue = << >> /\ inflight = {}

\* C1: every enqueued message gets exactly one AppendAndDestroySelf call,
\* with a live socket or with NULL: no message is ever called twice, and a
\* message that has left the queue (drained or abandoned) has been called
\* exactly once.
C1_ExactlyOnce ==
    /\ \A m \in Msg : Count(m) <= 1
    /\ \A m \in Consumed : Count(m) = 1
    /\ Quiescent => \A m \in Range(enq) : Count(m) = 1 /\ m \in Finished

\* C1 witness: three messages were enqueued, the queue is drained, and both
\* a live-socket call and a NULL-socket call by the writer have happened.
C1_Witness ==
    /\ Len(enq) = NumMsgs
    /\ Quiescent
    /\ \E e \in Range(WriterCallSeq) : e.call.sock
    /\ \E e \in Range(WriterCallSeq) : ~e.call.sock

\* C2: the writer's invocations follow the enqueue order m1..mN, each one
\* starts only after the previous one has returned, and the stream holds
\* the bytes of the returned normal calls in that same order.
C2_FifoSequential ==
    /\ \A i \in 1..Len(WriterCallSeq) : WriterCallSeq[i].call.msg = enq[i]
    /\ \A i \in 1..Len(WriterTrace) :
          IF i % 2 = 1 THEN WriterTrace[i].ev = "call"
          ELSE /\ WriterTrace[i].ev = "ret"
               /\ WriterTrace[i].call = WriterTrace[i - 1].call
    /\ out = [i \in 1..Len(NormalReturns) |-> NormalReturns[i].call.msg]

\* C2 witness: every message was queued and written, the stream holding
\* them in queue order, which is not the order the messages were created in.
C2_Witness ==
    /\ Len(enq) = NumMsgs
    /\ Len(out) = NumMsgs
    /\ out = enq
    /\ enq[1] # 1

\* C3: with producers enqueueing concurrently, at most one call of the
\* connection's writer is in flight, and the writer's calls are totally
\* ordered by the order in which the enqueues took effect.
C3_SingleWriter ==
    /\ Cardinality(WriterCalls) <= 1
    /\ Len(WriterCallSeq) <= Len(enq)
    /\ \A i, j \in 1..Len(WriterCallSeq) :
          i < j => \E a, b \in 1..Len(enq) :
                      /\ a < b
                      /\ enq[a] = WriterCallSeq[i].call.msg
                      /\ enq[b] = WriterCallSeq[j].call.msg

\* C3 witness: a writer call is in flight while another message is queued
\* and a producer still holds a message it is about to enqueue.
C3_Witness ==
    /\ Cardinality(WriterCalls) = 1
    /\ queue # << >>
    /\ \E w \in Wrapper : palive[w] = "live" /\ ptr[w] # NULL

\* C4: a wrapper destroyed while it still owns a message calls
\* AppendAndDestroySelf exactly once on that message, with a NULL socket and
\* a throw-away buffer, and nobody looks at the returned status.
C4_DiscardAbandons ==
    \A w \in Wrapper :
        discarded[w] # NULL =>
            /\ Count(discarded[w]) = 1
            /\ CallsOf(discarded[w])[1].call =
                  [msg |-> discarded[w], buf |-> "dummy_buf", sock |-> FALSE,
                   by |-> "ptr"]
            /\ discarded[w] \notin signalled
            /\ discarded[w] \notin Range(out)

\* C4 witness: Write() rejected the message, the wrapper was destroyed, and
\* the abandonment call returned an error status.
C4_Witness ==
    \E w \in Wrapper :
        /\ palive[w] = "dead"
        /\ discarded[w] # NULL
        /\ \E e \in Range(Returns) :
              e.call.msg = discarded[w] /\ e.st = "error"

\* C5: after the connection breaks, each message still queued gets one call
\* with a NULL socket whose status and bytes are dropped; the stream holds
\* exactly the messages generated with a live socket, in enqueue order.
C5_TeardownAbandons ==
    /\ \A m \in Consumed : Count(m) = 1
    /\ \A e \in Range(WriterTrace) :
          ~e.call.sock =>
              /\ e.call.buf = "dummy_buf"
              /\ e.call.msg \notin signalled
              /\ e.call.msg \notin Range(out)
    /\ out = SelectSeq(enq, LAMBDA m :
                 \E e \in Range(Returns) : e.call.msg = m /\ e.call.sock)

\* C5 witness: A, B, C enqueued; A and B generated normally; the connection
\* is abandoned; C gets a NULL-socket call returning an error; all counts 1.
C5_Witness ==
    /\ enq = <<1, 2, 3>>
    /\ out = <<1, 2>>
    /\ failed
    /\ Quiescent
    /\ \E e \in Range(Returns) :
          e.call.msg = 3 /\ ~e.call.sock /\ e.st = "error"
    /\ \A m \in Msg : Count(m) = 1

(***************************************************************************)
(* bthread context switch: machine model                                   *)
(*                                                                         *)
(* The routines of context.cpp are kept as instruction lists and run by    *)
(* Exec/Run below.  Instruction forms (dst first):                         *)
(*   <<"push", r>>  <<"pop", r>>  <<"pushi", imm>>                          *)
(*   <<"pushm", regs>>  <<"popm", regs>>       ARM push/pop {list}          *)
(*   <<"addsp", k>>                             lea k(%sp),%sp / add / sub  *)
(*   <<"st", src, base, off>>                   store src at off(base)      *)
(*   <<"ld", dst, base, off>>                   load dst from off(base)     *)
(*   <<"stm", base, regs>>  <<"ldm", base, regs>>   vstmia / vldmia         *)
(*   <<"stp", a, b, base, off>>  <<"ldp", a, b, base, off>>                 *)
(*   <<"mov", dst, src>>  <<"movi", dst, imm>>  <<"add", r, k>>             *)
(*   <<"and16", r>>                             and $-16 / bic #15          *)
(*   <<"iff", r, instr>>                        instr unless r = 0 (je)     *)
(*   <<"jmp", r>>  <<"ret">>  <<"call", addr>>                              *)
(***************************************************************************)
MaxJumps == 2
Patterns == {1, 2}
TransferVals == {1, 2}

ARCH == {"x86_64", "i386", "arm32", "arm64"}
\* the OS thread's own context and the contexts made on caller-owned stacks
Made == <<"c1", "c2">>
Ctx == {"main"} \cup Range(Made)
\* position of a context's stack and fcontext slot in the address space
Place(c) == CASE c = "c1" -> 1 [] c = "c2" -> 2 [] c = "main" -> 3

FINISH == 20000
EntryFns == {FINISH + 1, FINISH + 2}
RetAddr(c) == FINISH + 100 + Place(c)
BODY == FINISH + 200
TransferValue(v) == FINISH + 300 + v
Garbage == {FINISH + 401, FINISH + 402}
Pat(k, i) == 100 * k + i

StackRegion(a) == (a + 2048) \div 4096
\* the (stack top, entry function) pairs context c may be made with: one
\* 16-byte aligned top and one that is not
MakeArgs(c) ==
    {<<4096 * Place(c), FINISH + 1>>, <<4096 * Place(c) + 12, FINISH + 2>>}
StackSize == 2048
MainSp == 4096 * Place("main")
FcAddr(c) == 8 * Place(c)

IsX86(a) == a \in {"x86_64", "i386"}
Wd(a) == IF a \in {"x86_64", "arm64"} THEN 8 ELSE 4
SP(a) == CASE a = "x86_64" -> "rsp" [] a = "i386" -> "esp" [] OTHER -> "sp"
LR(a) == IF a = "arm64" THEN "x30" ELSE "lr"

\* callee-saved general-purpose registers of the ABI
GpCallee(a) ==
    CASE a = "x86_64" -> <<"rbx", "rbp", "r12", "r13", "r14", "r15">>
      [] a = "i386"   -> <<"ebp", "ebx", "esi", "edi">>
      [] a = "arm32"  -> <<"v1", "v2", "v3", "v4", "v5", "v6", "v7", "v8">>
      [] a = "arm64"  -> <<"x19", "x20", "x21", "x22", "x23", "x24", "x25",
                           "x26", "x27", "x28", "x29">>

\* caller-saved general-purpose registers (argument, result, temporaries)
GpScratch(a) ==
    CASE a = "x86_64" -> <<"rdi", "rsi", "rdx", "rcx", "rax", "r8", "r9">>
      [] a = "i386"   -> <<"eax", "ecx", "edx">>
      [] a = "arm32"  -> <<"a1", "a2", "a3", "a4", "lr">>
      [] a = "arm64"  -> <<"x0", "x1", "x2", "x3", "x4", "x30">>

\* floating-point control registers
FpCtl(a) ==
    CASE a \in {"x86_64", "i386"} -> <<"mxcsr", "x87cw">>
      [] a = "arm32" -> <<"fpscr">>
      [] a = "arm64" -> <<"fpcr">>

\* callee-saved floating-point data registers
FpData(a) ==
    IF IsX86(a) THEN << >>
    ELSE <<"d8", "d9", "d10", "d11", "d12", "d13", "d14", "d15">>

RegSeq(a) == GpCallee(a) \o GpScratch(a) \o FpCtl(a) \o FpData(a)
RegNo(a, r) == CHOOSE i \in 1..Len(RegSeq(a)) : RegSeq(a)[i] = r
Regs(a) == Range(RegSeq(a)) \cup {SP(a)}
\* register contents under pattern k: a distinct value per register
PatRegs ==
    [a \in ARCH |-> [k \in Patterns |->
        [r \in Range(RegSeq(a)) |-> Pat(k, RegNo(a, r))]]]
ArgRegs(a) == SubSeq(GpScratch(a), 1, 4)
RetReg(a) ==
    CASE a = "x86_64" -> "rax" [] a = "i386" -> "eax"
      [] a = "arm32" -> "a1" [] a = "arm64" -> "x0"

Put(m, a, v) == [x \in DOMAIN m \cup {a} |-> IF x = a THEN v ELSE m[x]]
PutAll(m, base, step, L, r) ==
    LET at == {base + (k - 1) * step : k \in 1..Len(L)}
    IN [x \in DOMAIN m \cup at |->
          IF x \in at THEN r[L[((x - base) \div step) + 1]] ELSE m[x]]
\* a cell never written holds an indeterminate value
Read(s, a) == IF a \in DOMAIN s.m THEN s.m[a] ELSE s.g
GetAll(s, base, step, L) ==
    [x \in DOMAIN s.r |->
        IF \E k \in 1..Len(L) : L[k] = x
        THEN Read(s, base + ((CHOOSE k \in 1..Len(L) : L[k] = x) - 1) * step)
        ELSE s.r[x]]

RECURSIVE Exec(_, _)
Exec(s, i) ==
    LET op == i[1]
        spr == SP(s.a)
        sp == s.r[spr]
        w == Wd(s.a)
    IN CASE op = "push" ->
              [s EXCEPT !.r[spr] = sp - w, !.m = Put(s.m, sp - w, s.r[i[2]])]
         [] op = "pushi" ->
              [s EXCEPT !.r[spr] = sp - w, !.m = Put(s.m, sp - w, i[2])]
         [] op = "pop" ->
              [s EXCEPT !.r = [s.r EXCEPT ![spr] = sp + w, ![i[2]] = Read(s, sp)]]
         [] op = "pushm" ->
              [s EXCEPT !.r[spr] = sp - w * Len(i[2]),
                        !.m = PutAll(s.m, sp - w * Len(i[2]), w, i[2], s.r)]
         [] op = "popm" ->
              [s EXCEPT !.r = [GetAll(s, sp, w, i[2]) EXCEPT
                                  ![spr] = sp + w * Len(i[2])]]
         [] op = "addsp" -> [s EXCEPT !.r[spr] = sp + i[2]]
         [] op = "st" -> [s EXCEPT !.m = Put(s.m, s.r[i[3]] + i[4], s.r[i[2]])]
         [] op = "ld" -> [s EXCEPT !.r[i[2]] = Read(s, s.r[i[3]] + i[4])]
         [] op = "stm" -> [s EXCEPT !.m = PutAll(s.m, s.r[i[2]], 8, i[3], s.r)]
         [] op = "ldm" -> [s EXCEPT !.r = GetAll(s, s.r[i[2]], 8, i[3])]
         [] op = "stp" ->
              [s EXCEPT !.m = PutAll(s.m, s.r[i[4]] + i[5], 8, <<i[2], i[3]>>, s.r)]
         [] op = "ldp" ->
              [s EXCEPT !.r = GetAll(s, s.r[i[4]] + i[5], 8, <<i[2], i[3]>>)]
         [] op = "mov" -> [s EXCEPT !.r[i[2]] = s.r[i[3]]]
         [] op = "movi" -> [s EXCEPT !.r[i[2]] = i[3]]
         [] op = "add" -> [s EXCEPT !.r[i[2]] = s.r[i[2]] + i[3]]
         [] op = "and16" -> [s EXCEPT !.r[i[2]] = s.r[i[2]] - (s.r[i[2]] % 16)]
         [] op = "iff" -> IF s.r[i[2]] # 0 THEN Exec(s, i[3]) ELSE s
         [] op = "jmp" -> [s EXCEPT !.pc = s.r[i[2]]]
         [] op = "ret" -> [s EXCEPT !.pc = Read(s, sp), !.r[spr] = sp + w]
         [] op = "call" ->
              IF IsX86(s.a)
              THEN [s EXCEPT !.r[spr] = sp - w, !.m = Put(s.m, sp - w, i[2])]
              ELSE [s EXCEPT !.r[LR(s.a)] = i[2]]

RECURSIVE Run(_, _, _)
Run(s, prog, n) ==
    IF n > Len(prog) THEN s ELSE Run(Exec(s, prog[n]), prog, n + 1)

(***************************************************************************)
(* The routines of context.cpp                                             *)
(***************************************************************************)
\* bthread_jump_fcontext, linux_x86_64 (rdi = ofc, rsi = nfc, rdx = vp,
\* rcx = preserve_fpu)
JumpX64 ==
    << <<"push", "rbp">>, <<"push", "rbx">>, <<"push", "r15">>,
       <<"push", "r14">>, <<"push", "r13">>, <<"push", "r12">>,
       <<"addsp", -8>>,
       <<"iff", "rcx", <<"st", "mxcsr", "rsp", 0>> >>,
       <<"iff", "rcx", <<"st", "x87cw", "rsp", 4>> >>,
       <<"st", "rsp", "rdi", 0>>,
       <<"mov", "rsp", "rsi">>,
       <<"iff", "rcx", <<"ld", "mxcsr", "rsp", 0>> >>,
       <<"iff", "rcx", <<"ld", "x87cw", "rsp", 4>> >>,
       <<"addsp", 8>>,
       <<"pop", "r12">>, <<"pop", "r13">>, <<"pop", "r14">>,
       <<"pop", "r15">>, <<"pop", "rbx">>, <<"pop", "rbp">>,
       <<"pop", "r8">>,
       <<"mov", "rax", "rdx">>,
       <<"mov", "rdi", "rdx">>,
       <<"jmp", "r8">> >>

\* bthread_make_fcontext, linux_x86_64 (rdi = sp, rsi = size, rdx = fn)
MakeX64 ==
    << <<"mov", "rax", "rdi">>,
       <<"and16", "rax">>,
       <<"add", "rax", -72>>,
       <<"st", "rdx", "rax", 56>>,
       <<"st", "mxcsr", "rax", 0>>,
       <<"st", "x87cw", "rax", 4>>,
       <<"movi", "rcx", FINISH>>,
       <<"st", "rcx", "rax", 64>>,
       <<"ret">> >>

\* bthread_jump_fcontext, linux_i386 (arguments on the stack)
JumpI386 ==
    << <<"ld", "ecx", "esp", 16>>,
       <<"push", "ebp">>, <<"push", "ebx">>, <<"push", "esi">>,
       <<"push", "edi">>,
       <<"addsp", -8>>,
       <<"iff", "ecx", <<"st", "mxcsr", "esp", 0>> >>,
       <<"iff", "ecx", <<"st", "x87cw", "esp", 4>> >>,
       <<"ld", "eax", "esp", 28>>,
       <<"st", "esp", "eax", 0>>,
       <<"ld", "edx", "esp", 32>>,
       <<"ld", "eax", "esp", 36>>,
       <<"mov", "esp", "edx">>,
       <<"iff", "ecx", <<"ld", "mxcsr", "esp", 0>> >>,
       <<"iff", "ecx", <<"ld", "x87cw", "esp", 4>> >>,
       <<"addsp", 8>>,
       <<"pop", "edi">>, <<"pop", "esi">>, <<"pop", "ebx">>,
       <<"pop", "ebp">>,
       <<"pop", "edx">>,
       <<"st", "eax", "esp", 4>>,
       <<"jmp", "edx">> >>

\* bthread_make_fcontext, linux_i386
MakeI386 ==
    << <<"ld", "eax", "esp", 4>>,
       <<"add", "eax", -8>>,
       <<"and16", "eax">>,
       <<"add", "eax", -32>>,
       <<"ld", "edx", "esp", 12>>,
       <<"st", "edx", "eax", 24>>,
       <<"st", "mxcsr", "eax", 0>>,
       <<"st", "x87cw", "eax", 4>>,
       <<"movi", "ecx", FINISH>>,
       <<"st", "ecx", "eax", 28>>,
       <<"ret">> >>

\* bthread_jump_fcontext, linux_arm32 (a1 = ofc, a2 = nfc, a3 = vp,
\* a4 = preserve_fpu)
JumpArm32 ==
    << <<"pushm", <<"lr">> >>,
       <<"pushm", <<"v1", "v2", "v3", "v4", "v5", "v6", "v7", "v8", "lr">> >>,
       <<"addsp", -64>>,
       <<"iff", "a4", <<"stm", "sp", FpData("arm32")>> >>,
       <<"st", "sp", "a1", 0>>,
       <<"mov", "sp", "a2">>,
       <<"iff", "a4", <<"ldm", "sp", FpData("arm32")>> >>,
       <<"addsp", 64>>,
       <<"mov", "a1", "a3">>,
       <<"popm", <<"v1", "v2", "v3", "v4", "v5", "v6", "v7", "v8", "lr">> >>,
       <<"ret">> >>

\* bthread_make_fcontext, linux_arm32
MakeArm32 ==
    << <<"and16", "a1">>,
       <<"add", "a1", -104>>,
       <<"st", "a3", "a1", 100>>,
       <<"movi", "a2", FINISH>>,
       <<"st", "a2", "a1", 96>>,
       <<"jmp", "lr">> >>

\* bthread_jump_fcontext, linux_arm64 (x0 = ofc, x1 = nfc, x2 = vp,
\* w3 = preserve_fpu, which the routine never tests)
JumpArm64 ==
    << <<"addsp", -176>>,
       <<"stp", "d8", "d9", "sp", 0>>,
       <<"stp", "d10", "d11", "sp", 16>>,
       <<"stp", "d12", "d13", "sp", 32>>,
       <<"stp", "d14", "d15", "sp", 48>>,
       <<"stp", "x19", "x20", "sp", 64>>,
       <<"stp", "x21", "x22", "sp", 80>>,
       <<"stp", "x23", "x24", "sp", 96>>,
       <<"stp", "x25", "x26", "sp", 112>>,
       <<"stp", "x27", "x28", "sp", 128>>,
       <<"stp", "x29", "x30", "sp", 144>>,
       <<"st", "x30", "sp", 160>>,
       <<"mov", "x4", "sp">>,
       <<"st", "x4", "x0", 0>>,
       <<"mov", "sp", "x1">>,
       <<"ldp", "d8", "d9", "sp", 0>>,
       <<"ldp", "d10", "d11", "sp", 16>>,
       <<"ldp", "d12", "d13", "sp", 32>>,
       <<"ldp", "d14", "d15", "sp", 48>>,
       <<"ldp", "x19", "x20", "sp", 64>>,
       <<"ldp", "x21", "x22", "sp", 80>>,
       <<"ldp", "x23", "x24", "sp", 96>>,
       <<"ldp", "x25", "x26", "sp", 112>>,
       <<"ldp", "x27", "x28", "sp", 128>>,
       <<"ldp", "x29", "x30", "sp", 144>>,
       <<"mov", "x0", "x2">>,
       <<"ld", "x4", "sp", 160>>,
       <<"addsp", 176>>,
       <<"jmp", "x4">> >>

\* bthread_make_fcontext, linux_arm64
MakeArm64 ==
    << <<"and16", "x0">>,
       <<"add", "x0", -176>>,
       <<"st", "x2", "x0", 160>>,
       <<"movi", "x1", FINISH>>,
       <<"st", "x1", "x0", 152>>,
       <<"jmp", "x30">> >>

\* Variants of the routines with one plausible slip each.
Others(a, x64, arm64) ==
    CASE a = "x86_64" -> x64 [] a = "i386" -> JumpI386
      [] a = "arm32" -> JumpArm32 [] a = "arm64" -> arm64

JumpSwappedPops(a) ==
    Others(a, [JumpX64 EXCEPT ![15] = <<"pop", "r13">>,
                              ![16] = <<"pop", "r12">>], JumpArm64)

JumpNoResult(a) ==
    Others(a, [JumpX64 EXCEPT ![22] = <<"mov", "rax", "rax">>], JumpArm64)

JumpAlwaysLoadFp(a) ==
    Others(a, [JumpX64 EXCEPT ![12] = <<"ld", "mxcsr", "rsp", 0>>,
                              ![13] = <<"ld", "x87cw", "rsp", 4>>], JumpArm64)

MakeEntryAtFinish(a) ==
    CASE a = "x86_64" -> [MakeX64 EXCEPT ![4] = <<"st", "rdx", "rax", 64>>,
                                         ![8] = <<"st", "rcx", "rax", 56>>]
      [] a = "i386" -> MakeI386
      [] a = "arm32" -> MakeArm32 [] a = "arm64" -> MakeArm64

MakeFinishMisplaced(a) ==
    CASE a = "x86_64" -> MakeX64 [] a = "i386" -> MakeI386
      [] a = "arm32" -> MakeArm32
      [] a = "arm64" -> [MakeArm64 EXCEPT ![5] = <<"st", "x1", "x0", 144>>]

JumpAlwaysStoreFp(a) ==
    Others(a, [JumpX64 EXCEPT ![8] = <<"st", "mxcsr", "rsp", 0>>,
                              ![9] = <<"st", "x87cw", "rsp", 4>>], JumpArm64)

JumpSavesInTarget(a) ==
    Others(a, [JumpX64 EXCEPT ![10] = <<"st", "rsp", "rsi", 0>>], JumpArm64)

JumpWrongHandle(a) ==
    Others(a, [JumpX64 EXCEPT ![10] = <<"st", "rsi", "rdi", 0>>], JumpArm64)

bthread_jump_fcontext(a) ==
    CASE a = "x86_64" -> JumpX64 [] a = "i386" -> JumpI386
      [] a = "arm32" -> JumpArm32 [] a = "arm64" -> JumpArm64

MakeSeedsEntry(a) ==
    CASE a = "x86_64" -> [MakeX64 EXCEPT ![5] = <<"st", "rdx", "rax", 0>>]
      [] a = "i386" -> MakeI386
      [] a = "arm32" -> MakeArm32 [] a = "arm64" -> MakeArm64

MakeShortFrame(a) ==
    CASE a = "x86_64" -> [MakeX64 EXCEPT ![3] = <<"add", "rax", -64>>]
      [] a = "i386" -> MakeI386
      [] a = "arm32" -> MakeArm32 [] a = "arm64" -> MakeArm64

bthread_make_fcontext(a) ==
    CASE a = "x86_64" -> MakeX64 [] a = "i386" -> MakeI386
      [] a = "arm32" -> MakeArm32 [] a = "arm64" -> MakeArm64

\* What the finish label does: _exit(0).
finish(a) ==
    IF a = "i386"
    THEN << <<"movi", "eax", 0>>, <<"st", "eax", "esp", 0>> >>
    ELSE << <<"movi", ArgRegs(a)[1], 0>> >>

(***************************************************************************)
(* Calling convention of the code around the routines                      *)
(***************************************************************************)
\* placing the arguments of a call
ArgSetup(a, args) ==
    IF a = "i386"
    THEN [k \in 1..Len(args) |-> <<"pushi", args[Len(args) + 1 - k]>>]
    ELSE [k \in 1..Len(args) |-> <<"movi", ArgRegs(a)[k], args[k]>>]

\* the first argument as the callee's body sees it
FirstArg(a, r, m) ==
    IF a = "i386" THEN (IF r["esp"] + 4 \in DOMAIN m THEN m[r["esp"] + 4] ELSE 0)
    ELSE r[ArgRegs(a)[1]]

\* prologue and epilogue of a non-leaf function on ARM keep the link
\* register on the stack; on x86 the return address is already there
Prologue(a) == IF IsX86(a) THEN << >> ELSE << <<"push", LR(a)>> >>
Epilogue(a) ==
    IF IsX86(a) THEN << <<"ret">> >>
    ELSE << <<"pop", LR(a)>>, <<"jmp", LR(a)>> >>

\* memory below the stack pointer of the running stack is dead
Clean(m, sp) ==
    LET live == {x \in DOMAIN m : ~(StackRegion(x) = StackRegion(sp) /\ x < sp)}
    IN [x \in live |-> m[x]]

Machine(r, m, g) == [r |-> r, m |-> m, pc |-> BODY, g |-> g, a |-> arch]

(***************************************************************************)
(* Operations                                                              *)
(***************************************************************************)
\* Whether resuming t reads cells of its save area that were never written:
\* make_fcontext seeds only some cells; the x86 and arm32 routines store the
\* floating-point cells only when preserve_fpu is set.
ReadsUnwritten(t, flag) ==
    \/ status[t] = "fresh"
    \/ flag # 0 /\ mem[FcAddr(t)] \notin DOMAIN mem

CanJump(t) ==
    /\ ~halted
    /\ pc = BODY
    /\ t # cur
    /\ status[t] \in {"fresh", "suspended"}

Indeterminate(t, flag) ==
    IF ~CanJump(t) THEN {}
    ELSE IF ReadsUnwritten(t, flag) THEN Garbage ELSE {FINISH + 401}

NoSnap == [r |-> << >>, flag |-> 0]

NoJump ==
    [from |-> "none", to |-> "none", vp |-> 0, flag |-> 0, fresh |-> FALSE,
     handle |-> NULL]

InitCtx ==
    /\ arch \in ARCH
    /\ regs = [r \in Regs(arch) |->
                  IF r = SP(arch) THEN MainSp ELSE PatRegs[arch][1][r]]
    /\ mem = [x \in {} |-> 0]
    /\ pc = BODY
    /\ cur = "main"
    /\ status = [c \in Ctx |-> IF c = "main" THEN "running" ELSE "none"]
    /\ entryOf = [c \in Ctx |-> NULL]
    /\ snap = [c \in Ctx |-> NoSnap]
    /\ last = NoJump
    /\ halted = FALSE
    /\ jumps = 0

\* Code of the current context leaves every register but the stack pointer
\* with the values of pattern k.
Compute(r, k) ==
    [x \in DOMAIN r |-> IF x = SP(arch) THEN r[x] ELSE PatRegs[arch][k][x]]

\* The current context, its registers in pattern k, calls
\* bthread_make_fcontext(top, size, fn) and keeps the returned handle in the
\* fcontext slot of context c.
MakeContext(c, top, fn, k) ==
    /\ ~halted
    /\ pc = BODY
    /\ status[c] = "none"
    /\ \A i \in 2..Len(Made) : c = Made[i] => status[Made[i - 1]] # "none"
    /\ LET s1 == Run(Machine(Compute(regs, k), mem, 0),
                     ArgSetup(arch, <<top, StackSize, fn>>), 1)
           s2 == Exec(s1, <<"call", RetAddr(cur)>>)
           s3 == Run(s2, bthread_make_fcontext(arch), 1)
           s4 == IF arch = "i386" THEN Exec(s3, <<"addsp", 12>>) ELSE s3
       IN /\ s3.pc = RetAddr(cur)
          /\ regs' = s4.r
          /\ mem' = Put(Clean(s4.m, s4.r[SP(arch)]), FcAddr(c), s4.r[RetReg(arch)])
    /\ status' = [status EXCEPT ![c] = "fresh"]
    /\ entryOf' = [entryOf EXCEPT ![c] = fn]
    /\ UNCHANGED <<arch, pc, cur, snap, last, halted, jumps, msgvars>>

\* The current context, its registers in pattern k, calls
\* bthread_jump_fcontext(&fc[cur], fc[t], vp, flag); g is what a read of a
\* never-written cell yields.
Jump(t, vp, flag, k, g) ==
    /\ jumps < MaxJumps
    /\ LET s1 == Run(Machine(Compute(regs, k), mem, g),
                     ArgSetup(arch, <<FcAddr(cur), mem[FcAddr(t)], vp, flag>>), 1)
           s2 == Exec(s1, <<"call", RetAddr(cur)>>)
           s3 == Run(s2, bthread_jump_fcontext(arch), 1)
       IN /\ regs' = s3.r
          /\ mem' = Clean(s3.m, s3.r[SP(arch)])
          /\ pc' = s3.pc
          /\ snap' = [snap EXCEPT ![cur] = [r |-> s1.r, flag |-> flag]]
          /\ last' = [from |-> cur, to |-> t, vp |-> vp, flag |-> flag,
                      fresh |-> (status[t] = "fresh"),
                      handle |-> mem[FcAddr(t)]]
    /\ status' = [status EXCEPT ![cur] = "suspended", ![t] = "running"]
    /\ cur' = t
    /\ jumps' = jumps + 1
    /\ UNCHANGED <<arch, entryOf, halted, msgvars>>

\* The resumed context continues after its own jump call: (cdecl) it drops
\* the four stacked arguments.
Resume ==
    /\ ~halted
    /\ pc = RetAddr(cur)
    /\ regs' = IF arch = "i386"
               THEN Exec(Machine(regs, mem, 0), <<"addsp", 16>>).r
               ELSE regs
    /\ pc' = BODY
    /\ snap' = [snap EXCEPT ![cur] = NoSnap]
    /\ last' = NoJump
    /\ UNCHANGED <<arch, mem, cur, status, entryOf, halted, jumps, msgvars>>

\* A fresh context starts running the body of its entry function.
Enter ==
    /\ ~halted
    /\ pc \in EntryFns
    /\ LET s1 == Run(Machine(regs, mem, 0), Prologue(arch), 1)
       IN regs' = s1.r /\ mem' = s1.m
    /\ pc' = BODY
    /\ last' = NoJump
    /\ UNCHANGED <<arch, cur, status, entryOf, snap, halted, jumps, msgvars>>

\* The entry function of the current context returns normally.
EntryReturn ==
    /\ ~halted
    /\ pc = BODY
    /\ cur # "main"
    /\ LET s1 == Run(Machine(regs, mem, 0), Epilogue(arch), 1)
       IN regs' = s1.r /\ pc' = s1.pc
    /\ status' = [status EXCEPT ![cur] = "returned"]
    /\ UNCHANGED <<arch, mem, cur, entryOf, snap, last, halted, jumps, msgvars>>

\* finish: _exit(0)
Finish ==
    /\ ~halted
    /\ pc = FINISH
    /\ LET s1 == Run(Machine(regs, mem, 0), finish(arch), 1)
       IN regs' = s1.r /\ mem' = s1.m
    /\ halted' = TRUE
    /\ UNCHANGED <<arch, pc, cur, status, entryOf, snap, last, jumps, msgvars>>

NextCtx ==
    \/ \E c \in Range(Made), k \in Patterns : \E a \in MakeArgs(c) :
          MakeContext(c, a[1], a[2], k)
    \/ \E t \in Ctx, v \in TransferVals, flag \in {0, 1}, k \in Patterns :
          \E g \in Indeterminate(t, flag) : Jump(t, TransferValue(v), flag, k, g)
    \/ Resume
    \/ Enter
    \/ EntryReturn
    \/ Finish

\* the part of the state each specification leaves alone
CtxIdle ==
    /\ arch = "x86_64" /\ regs = << >> /\ mem = << >> /\ pc = BODY
    /\ cur = "main" /\ status = << >> /\ entryOf = << >> /\ snap = << >>
    /\ last = NoJump /\ halted = FALSE /\ jumps = 0

\* a program that only switches contexts
InitSpecCtx == InitCtx /\ InitMsg

SpecCtx == InitSpecCtx /\ [][NextCtx]_vars

\* a program that only sends messages
InitSpecMsg == InitMsg /\ CtxIdle

SpecMsg == InitSpecMsg /\ [][NextMsg]_vars

\* a program that only handles wrappers
InitSpecPtr == InitMsg /\ CtxIdle

SpecPtr == InitSpecPtr /\ [][NextPtr]_vars

(***************************************************************************)
(* Claims about the context switch                                         *)
(***************************************************************************)
Arrived == last.to # "none"
Resumed == Arrived /\ ~last.fresh
Entered == Arrived /\ last.fresh
\* registers of the context that made the last jump, at its call
Jumper == snap[last.from].r
Mine == snap[cur].r
Restored(rs) == \A r \in rs : regs[r] = Mine[r]
BothPreserve == snap[cur].flag # 0 /\ last.flag # 0
Gp(a) == Range(GpCallee(a)) \cup Range(GpScratch(a))
Fp(a) == Range(FpCtl(a)) \cup Range(FpData(a))
\* bytes between the stack pointer at the call and the handle the routine
\* stores: return address, saved registers, floating-point area
SaveAreaSize(a) ==
    CASE a = "x86_64" -> 64 [] a = "i386" -> 28
      [] a = "arm32" -> 104 [] a = "arm64" -> 176
\* cells of a save area that hold floating-point state
FpCells(a, h) ==
    IF IsX86(a) THEN {h, h + 4} ELSE {h + 8 * (k - 1) : k \in 1..8}
\* the second register of a two-word result
RetReg2(a) ==
    CASE a = "x86_64" -> "rdx" [] a = "i386" -> "edx"
      [] a = "arm32" -> "a2" [] a = "arm64" -> "x1"

\* C6 as stated: when a context is resumed, all of its general-purpose
\* registers and its stack pointer are what they were at its jump call, and
\* so are the floating-point control registers if both jumps preserved.
C6_Original ==
    Resumed =>
        /\ Restored(Gp(arch) \cup {SP(arch)})
        /\ BothPreserve => Restored(Range(FpCtl(arch)))

\* C6 amended: a resumed context has its callee-saved general-purpose
\* registers and its stack pointer back; with preserve_fpu set on both jumps
\* x86 also has MXCSR and the x87 control word back and arm32 d8-d15; arm64
\* has d8-d15 back whatever the flag; the result register holds the
\* transfer value instead of its old content.
C6_RoundTrip ==
    Resumed =>
        /\ Restored(Range(GpCallee(arch)) \cup {SP(arch)})
        /\ (IsX86(arch) /\ BothPreserve) => Restored(Range(FpCtl(arch)))
        /\ (arch = "arm32" /\ BothPreserve) => Restored(Range(FpData(arch)))
        /\ arch = "arm64" => Restored(Range(FpData(arch)))
        /\ regs[RetReg(arch)] = last.vp

\* C6 witness: A jumped to B and B back to A, both with preserve_fpu set,
\* and B ran with other register contents than A.
C6_Witness ==
    /\ Resumed
    /\ BothPreserve
    /\ arch = "x86_64"
    /\ \A r \in Range(GpCallee(arch)) \cup Range(FpCtl(arch)) :
          Jumper[r] # Mine[r]

\* C7: a fresh context, when first jumped into, is at its entry function
\* and the entry function's argument is the transfer value of that jump.
C7_FreshEntry ==
    Entered =>
        /\ pc = entryOf[cur]
        /\ pc \in EntryFns
        /\ FirstArg(arch, regs, mem) = last.vp

\* C7 witness: a context made on an unaligned stack top is entered.
C7_Witness ==
    /\ Entered
    /\ cur = "c2"
    /\ entryOf[cur] = FINISH + 2
    /\ last.vp = TransferValue(2)

\* C8: once an entry function has returned, control is in finish, which
\* exits the process: that context stays current, no other context runs
\* again, and after the exit nothing runs at all.
C8_ReturnIsFatal ==
    \A c \in Ctx :
        status[c] = "returned" =>
            /\ pc = FINISH
            /\ cur = c
            /\ \A d \in Ctx \ {c} : status[d] # "running"
            /\ ~halted => ENABLED Finish
            /\ halted => ~ENABLED NextCtx

\* C8 witness: a context that was suspended and resumed returns from its
\* entry function and the process has exited, its resumer still suspended.
C8_Witness ==
    /\ halted
    /\ status[cur] = "returned"
    /\ jumps = MaxJumps
    /\ status["main"] = "suspended"

\* C9 as stated: the value a jump call returns is the TransferRecord: the
\* handle of the context that jumped back and the value it passed.
C9_Original ==
    Resumed =>
        <<regs[RetReg(arch)], regs[RetReg2(arch)]>> =
            <<mem[FcAddr(last.from)], last.vp>>

\* C9 amended: a context is resumed only by a jump to the handle its own
\* call stored in its from_storage; the call then returns the transfer
\* value alone; the handle of the context that jumped back is not returned
\* but stored in that context's from_storage.
C9_ReturnsTransferValue ==
    Resumed =>
        /\ last.to = cur /\ last.from # cur
        /\ last.handle = mem[FcAddr(cur)]
        /\ last.handle = Mine[SP(arch)] - SaveAreaSize(arch)
        /\ regs[RetReg(arch)] = last.vp
        /\ mem[FcAddr(last.from)] = Jumper[SP(arch)] - SaveAreaSize(arch)
        /\ regs[RetReg(arch)] # mem[FcAddr(last.from)]

\* C9 witness: a made context jumps back into the thread's own context.
C9_Witness ==
    /\ Resumed
    /\ cur = "main"
    /\ last.from = "c1"
    /\ last.vp = TransferValue(2)

\* C10 as stated: with preserve_fpu clear the floating-point state after
\* the jump is the jumper's, and the jumper's save area holds none of it.
C10_Original ==
    (Arrived /\ last.flag = 0) =>
        /\ \A r \in Fp(arch) : regs[r] = Jumper[r]
        /\ FpCells(arch, mem[FcAddr(last.from)]) \cap DOMAIN mem = {}

\* C10 amended: that holds on i386, x86_64 and arm32; arm64 never tests
\* the flag: it stores d8-d15 in the jumper's save area and loads d8-d15
\* from the target's, and leaves FPCR alone.
C10_NoFpWhenClear ==
    (Arrived /\ last.flag = 0) =>
        IF arch # "arm64"
        THEN /\ \A r \in Fp(arch) : regs[r] = Jumper[r]
             /\ FpCells(arch, mem[FcAddr(last.from)]) \cap DOMAIN mem = {}
        ELSE /\ \A k \in 1..8 :
                  mem[mem[FcAddr(last.from)] + 8 * (k - 1)] =
                      Jumper[FpData(arch)[k]]
             /\ Resumed => Restored(Range(FpData(arch)))
             /\ \A r \in Range(FpCtl(arch)) : regs[r] = Jumper[r]

\* C10 witness: a context suspended with preserve_fpu set is resumed with
\* it clear by a context running with another floating-point state.
C10_Witness ==
    /\ Resumed
    /\ last.flag = 0
    /\ snap[cur].flag = 1
    /\ arch = "i386"
    /\ \A r \in Fp(arch) : Jumper[r] # Mine[r]

(***************************************************************************)
(* Claims about the wrapper's operations                                   *)
(***************************************************************************)
Owners(m) == {w \in Wrapper : palive[w] = "live" /\ ptr[w] = m}

\* C11 as stated: whatever public operations are applied to wrappers, no
\* message ever receives a second AppendAndDestroySelf call.
C11_Original == \A m \in Msg : Count(m) <= 1

\* C11 amended: a message receives at most one call per wrapper constructed
\* from its raw pointer; one that was wrapped once is, through moves,
\* conversions, releases and destructions, either owned by one wrapper and
\* not yet called, or owned by none and called at most once.
C11_OncePerWrapping ==
    \A m \in Msg :
        /\ Count(m) <= wrapped[m]
        /\ wrapped[m] = 1 => Cardinality(Owners(m)) + Count(m) <= 1

\* C11 witness: message 1, wrapped once in a typed wrapper, reached the
\* erased wrapper 2, whose destruction made the only call on it.
C11_Witness ==
    /\ wrapped[1] = 1
    /\ discarded[2] = 1
    /\ palive[1] = "dead" /\ palive[2] = "dead"
    /\ Count(1) = 1
    /\ 1 \in Finished

(***************************************************************************)
(* Claims about errors and hints on the write path                         *)
(***************************************************************************)
ErrorReturns == {e \in Range(Returns) : e.call.sock /\ e.st = "error"}
OkWritten == {e.call.msg : e \in {r \in Range(Returns) : r.call.sock /\ r.st = "ok"}}

\* C12: an error status on the normal path signals the waiter of that
\* message and no other; the messages generated without error keep their
\* bytes in the stream, in enqueue order; the writer goes on: while messages
\* are queued and no call is in flight it can take the next one, and once
\* the queue is drained or abandoned every enqueued message was called once.
C12_ErrorIsLocal ==
    /\ signalled = {e.call.msg : e \in ErrorReturns}
    /\ SelectSeq(out, LAMBDA m : m \in OkWritten) =
          SelectSeq(enq, LAMBDA m : m \in OkWritten)
    /\ (queue # << >> /\ WriterIdle) => ENABLED (WriterBegin \/ AbandonBegin)
    /\ Quiescent => \A m \in Range(enq) : Count(m) = 1 /\ m \in Finished

\* C12 witness: of three messages written on a live connection the second
\* returned an error; the first and the third are in the stream.
C12_Witness ==
    /\ Len(enq) = NumMsgs
    /\ Quiescent
    /\ ~failed
    /\ signalled = {enq[2]}
    /\ OkWritten = {enq[1], enq[3]}
    /\ {enq[1], enq[3]} \subseteq Range(out)

(***************************************************************************)
(* Claims about conversion and the two consumption paths                   *)
(***************************************************************************)
\* a step in which a new erased wrapper b is constructed owning a message
\* that comes from no raw pointer and from no other erased wrapper
Converted(b) ==
    /\ ~Typed(b)
    /\ palive[b] = "unborn" /\ palive'[b] = "live"
    /\ ptr'[b] # NULL
    /\ wrapped' = wrapped
    /\ \A e \in Wrapper :
          (~Typed(e) /\ palive[e] = "live") => ptr[e] # ptr'[b]

\* C13: a live typed wrapper can always be converted to a new erased one;
\* the conversion leaves the typed wrapper empty and the erased wrapper
\* owning the same message, changes no other wrapper and makes no call; a
\* message that an erased wrapper owned at its destruction got one call for
\* each time its raw pointer was wrapped at most, and at least one: exactly
\* one when it was wrapped once.
C13_ConversionTransfers ==
    /\ [](\A a, b \in Wrapper :
            (Typed(a) /\ ~Typed(b) /\ palive[a] = "live"
                /\ palive[b] = "unborn") => ENABLED Convert(a, b))
    /\ [][\A b \in Wrapper :
            Converted(b) =>
                \E a \in Wrapper :
                    /\ Typed(a) /\ palive[a] = "live"
                    /\ ptr[a] = ptr'[b]
                    /\ ptr'[a] = NULL
                    /\ \A w \in Wrapper \ {a, b} : ptr'[w] = ptr[w]
                    /\ ptrlog' = ptrlog /\ inflight' = inflight]_vars
    /\ [](\A w \in Wrapper :
            (~Typed(w) /\ discarded[w] # NULL)
                => Count(discarded[w]) \in 1..wrapped[discarded[w]])

\* C13 witness: the typed wrapper 1 is alive and empty, the erased wrapper 2
\* was destroyed owning message 1, and the one call on it has returned.
C13_Witness ==
    /\ wrapped[1] = 1
    /\ palive[1] = "live" /\ ptr[1] = NULL
    /\ discarded[2] = 1
    /\ Count(1) = 1
    /\ 1 \in Finished

(***************************************************************************)
(* Claims about the size hint                                              *)
(***************************************************************************)
RECURSIVE Flatten(_)
Flatten(ss) == IF ss = << >> THEN << >> ELSE Head(ss) \o Flatten(Tail(ss))

\* C14: a call of EstimatedByteSize changes nothing of the messages, the
\* wrappers, the queue, the calls made or the stream; the default returns
\* zero; and whatever value the hint has, the stream holds the full bytes of
\* the messages generated on the normal path, the writer's calls follow the
\* enqueue order, and no message is called twice.
C14_HintIsPure ==
    /\ [][hint' # hint =>
            UNCHANGED <<ptr, palive, queue, trace, ptrlog, inflight, out,
                        failed, signalled, enq, discarded, wrapped>>]_vars
    /\ [](\A m \in Msg :
            (wrapped[m] > 0 /\ Count(m) = 0) =>
                ENABLED EstimatedByteSize(m, 0))
    /\ [](out = Flatten([i \in 1..Len(NormalReturns) |->
                            Bytes(NormalReturns[i].call.msg)]))
    /\ [](\A i \in 1..Len(WriterCallSeq) : WriterCallSeq[i].call.msg = enq[i])
    /\ [](\A m \in Msg : Count(m) <= 1)

\* C14 witness: the hint was last answered with a clearly wrong value and
\* every message has been enqueued and written in full.
C14_Witness ==
    /\ hint = <<7>>
    /\ Len(enq) = NumMsgs
    /\ Quiescent
    /\ Len(out) = NumMsgs

(***************************************************************************)
(* Claims about the two consumption paths                                  *)
(***************************************************************************)
NormalCalls(m) == Len(SelectSeq(CallsOf(m), LAMBDA e : e.call.sock))
AbandonCalls(m) == Len(SelectSeq(CallsOf(m), LAMBDA e : ~e.call.sock))
\* the message left its wrapper through release() into the write path
Released(m) == m \in Range(enq)
\* nothing holds the message any more: no live wrapper, not the queue
Disposed(m) ==
    /\ wrapped[m] > 0
    /\ Owners(m) = {}
    /\ \A w \in Wrapper : palive[w] = "rejected" => ptr[w] # m
    /\ m \notin Range(queue)

\* C15: no message gets both a call with a socket and a call with NULL, nor
\* two of either; a call with a socket is made only on a message that left
\* its wrapper through release(); a wrapper whose message was released is
\* empty and its destruction calls nothing; and a message that neither a
\* wrapper nor the queue holds any more has got its one call.
C15_ExactlyOnePath ==
    \A m \in Msg :
        /\ NormalCalls(m) + AbandonCalls(m) <= 1
        /\ NormalCalls(m) = 1 => Released(m)
        /\ Released(m) =>
              /\ \A w \in Wrapper : ptr[w] # m
              /\ ptrlog[m] = << >>
              /\ \A w \in Wrapper : discarded[w] # m
        /\ Disposed(m) => NormalCalls(m) + AbandonCalls(m) = 1

\* C15 witness: one message was released, written with a socket, and its
\* empty wrapper destroyed; another was abandoned by its wrapper's deleter.
C15_Witness ==
    \E m, n \in Msg :
        /\ Released(m) /\ NormalCalls(m) = 1 /\ m \in Finished
        /\ palive[m] = "dead" /\ discarded[m] = NULL
        /\ ~Released(n) /\ AbandonCalls(n) = 1 /\ n \in Finished
        /\ discarded[n] = n

(***************************************************************************)
(* Claims about the contexts of one thread                                 *)
(***************************************************************************)
\* offset of the resume address in a save area
ResumeSlot(a) ==
    CASE a = "x86_64" -> 56 [] a = "i386" -> 24
      [] a = "arm32" -> 100 [] a = "arm64" -> 160

\* the address a jump to context c would continue at
ResumePoint(c) ==
    IF FcAddr(c) \notin DOMAIN mem THEN NULL
    ELSE LET x == mem[FcAddr(c)] + ResumeSlot(arch)
         IN IF x \in DOMAIN mem THEN mem[x] ELSE NULL

Exists(c) == status[c] # "none"

\* C16: exactly one context is current and the processor runs on its
\* stack; every other context that exists is fresh, its save area resuming
\* at its entry function, or suspended, its save area resuming right after
\* its own last jump call; a jump makes its target current and its caller
\* suspended in the same step.
C16_OneCurrent ==
    /\ [](/\ Cardinality({c \in Ctx : status[c] \in {"running", "returned"}})
               = 1
          /\ status[cur] \in {"running", "returned"}
          /\ StackRegion(regs[SP(arch)]) = Place(cur)
          /\ \A c \in Ctx \ {cur} :
                Exists(c) =>
                    \/ status[c] = "fresh" /\ ResumePoint(c) = entryOf[c]
                    \/ status[c] = "suspended" /\ ResumePoint(c) = RetAddr(c))
    /\ [][jumps' # jumps =>
            /\ cur' # cur
            /\ status'[cur] = "suspended"
            /\ status'[cur'] = "running"
            /\ status[cur'] \in {"fresh", "suspended"}
            /\ pc' = ResumePoint(cur')
            /\ \A c \in Ctx \ {cur, cur'} : status'[c] = status[c]]_vars

\* C16 witness: after two makes and two jumps c2 is current, main and c1
\* are suspended.
C16_Witness ==
    /\ cur = "c2"
    /\ status["main"] = "suspended"
    /\ status["c1"] = "suspended"
    /\ jumps = 2

(***************************************************************************)
(* Claims about what the routines write                                    *)
(***************************************************************************)
Align16(x) == x - (x % 16)

\* what the routine subtracts from the aligned address
MakeFrameSize(a) ==
    CASE a = "x86_64" -> 72 [] a = "i386" -> 32
      [] a = "arm32" -> 104 [] a = "arm64" -> 176

\* the machine after a call bthread_make_fcontext(top, size, fn) made in
\* the current state
MakeResult(top, size, fn) ==
    LET s1 == Run(Machine(regs, mem, 0), ArgSetup(arch, <<top, size, fn>>), 1)
        s2 == Exec(s1, <<"call", RetAddr(cur)>>)
    IN Run(s2, bthread_make_fcontext(arch), 1)

\* cells whose content differs between memory m and the current memory,
\* the caller's own stack below its stack pointer aside (the arguments and
\* the return address of the call)
Written(m) ==
    {x \in DOMAIN m :
        /\ x \notin DOMAIN mem \/ m[x] # mem[x]
        /\ ~(StackRegion(x) = StackRegion(regs[SP(arch)])
                /\ x < regs[SP(arch)])}

CanMake(c) == ~halted /\ pc = BODY /\ status[c] = "none"

MakeInputs(c) ==
    {<<a[1], sz, fn>> : a \in MakeArgs(c), sz \in {0, StackSize},
                        fn \in EntryFns \cup {NULL}}

\* the writes of a call stay in [handle, aligned address) and in the stack
\* supplied, the routine returns to its caller, and neither the size nor
\* the entry changes what it does
WritesTail(c, aligned(_)) ==
    \A i \in MakeInputs(c) :
        LET s == MakeResult(i[1], i[2], i[3])
            h == s.r[RetReg(arch)]
            z == MakeResult(i[1], StackSize, FINISH + 1)
        IN /\ s.pc = RetAddr(cur)
           /\ h = aligned(i[1]) - MakeFrameSize(arch)
           /\ \A x \in Written(s.m) :
                 /\ h <= x /\ x + Wd(arch) <= aligned(i[1])
                 /\ i[1] - StackSize <= x /\ x < i[1]
           /\ s.m[h + ResumeSlot(arch)] = i[3]
           /\ FINISH \in {s.m[x] : x \in Written(s.m)}
           /\ h = z.r[RetReg(arch)]
           /\ Written(s.m) = Written(z.m)

\* C17 as stated: the handle is the 16-byte aligned stack top minus a
\* fixed size and every write lies between the two.
C17_Original ==
    \A c \in Range(Made) : CanMake(c) => WritesTail(c, Align16)

\* the address the routine aligns: i386 first steps 8 bytes down
AlignedTop(top) == IF arch = "i386" THEN Align16(top - 8) ELSE Align16(top)

\* C17 amended: the same, except that on i386 the address aligned is the
\* stack top minus 8, so that the handle lies 32 or 48 bytes below the
\* aligned stack top.
C17_WritesOnlyTail ==
    \A c \in Range(Made) :
        /\ CanMake(c) => WritesTail(c, AlignedTop)
        /\ status[c] = "fresh" =>
              \E a \in MakeArgs(c) :
                  /\ a[2] = entryOf[c]
                  /\ mem[FcAddr(c)] = AlignedTop(a[1]) - MakeFrameSize(arch)
                  /\ mem[FcAddr(c)] \in
                        {Align16(a[1]) - MakeFrameSize(arch),
                         Align16(a[1]) - MakeFrameSize(arch) - 16}

\* C17 witness: on i386 c2 was made on a stack top that is not aligned and
\* c1 on one that is; both are still fresh.
C17_Witness ==
    /\ arch = "i386"
    /\ status["c1"] = "fresh" /\ entryOf["c1"] = FINISH + 1
    /\ status["c2"] = "fresh" /\ entryOf["c2"] = FINISH + 2
    /\ mem[FcAddr("c1")] = 4096 - 48
    /\ mem[FcAddr("c2")] = 2 * 4096 - 32

JumpResult(t, vp, flag, g) ==
    LET s1 == Run(Machine(regs, mem, g),
                  ArgSetup(arch, <<FcAddr(cur), mem[FcAddr(t)], vp, flag>>), 1)
        s2 == Exec(s1, <<"call", RetAddr(cur)>>)
    IN Run(s2, bthread_jump_fcontext(arch), 1)

\* cells whose content differs between memory m and the current memory
Changed(m) == {x \in DOMAIN m : x \notin DOMAIN mem \/ m[x] # mem[x]}

\* the handle memory m holds for context c
HandleIn(m, c) == IF FcAddr(c) \in DOMAIN m THEN m[FcAddr(c)] ELSE NULL

\* the cells of the stack of context c
StackOf(c, m) == {x \in DOMAIN m : StackRegion(x) = Place(c)}

\* C19: a jump writes the caller's state only onto the caller's own stack,
\* between the handle it produces and the caller's stack pointer, and the
\* handle into from_storage; the target's save area is only read (the one
\* cell of the target's stack a jump writes is on i386 the argument cell
\* above the save area, which receives the transfer value); the stack, the
\* handle and the resume address of every other suspended or fresh context
\* are the same after a jump that does not target it.
C19_JumpWritesOwnStack ==
    /\ [](\A t \in Ctx, v \in TransferVals, flag \in {0, 1} :
            \A g \in Indeterminate(t, flag) :
                LET s == JumpResult(t, TransferValue(v), flag, g)
                    h == HandleIn(s.m, cur)
                IN /\ DOMAIN mem \subseteq DOMAIN s.m
                   /\ StackRegion(h) = Place(cur)
                   /\ h < regs[SP(arch)]
                   /\ \A x \in Changed(s.m) :
                         \/ x = FcAddr(cur)
                         \/ /\ StackRegion(x) = Place(cur)
                            /\ h <= x /\ x < regs[SP(arch)]
                         \/ /\ arch = "i386"
                            /\ x = s.r[SP(arch)] + 4
                            /\ s.m[x] = TransferValue(v)
                   /\ s.r[SP(arch)] > mem[FcAddr(t)]
                   /\ StackRegion(s.r[SP(arch)]) = Place(t)
                   /\ \A x \in Changed(s.m) :
                         ~(mem[FcAddr(t)] <= x /\ x < s.r[SP(arch)]))
    /\ [][jumps' # jumps =>
            /\ HandleIn(mem', cur) < regs[SP(arch)]
            /\ StackRegion(HandleIn(mem', cur)) = Place(cur)
            /\ \A c \in Ctx \ {cur, cur'} :
                  status[c] \in {"fresh", "suspended"} =>
                      /\ StackOf(c, mem') = StackOf(c, mem)
                      /\ \A x \in StackOf(c, mem) : mem'[x] = mem[x]
                      /\ mem'[FcAddr(c)] = mem[FcAddr(c)]
                      /\ ResumePoint(c)' = ResumePoint(c)
            /\ \A x \in StackOf(cur', mem') :
                  \/ x \in DOMAIN mem /\ mem'[x] = mem[x]
                  \/ /\ arch = "i386"
                     /\ x = regs'[SP(arch)] + 4
                     /\ mem'[x] = last'.vp]_vars

\* C19 witness: on i386 c1 has jumped to the fresh c2, preserving the
\* floating-point state, while main was suspended.
C19_Witness ==
    /\ arch = "i386"
    /\ last.from = "c1" /\ last.to = "c2" /\ last.fresh /\ last.flag = 1
    /\ status["main"] = "suspended"
    /\ status["c1"] = "suspended"
    /\ mem[FcAddr("c1")] \in DOMAIN mem

(***************************************************************************)
(* Claims about the floating-point control state on x86                    *)
(***************************************************************************)
\* the floating-point control cells of the save area of context c hold the
\* values c had when it made its jump
FpStored(c) ==
    LET h == mem[FcAddr(c)]
    IN /\ FpCells(arch, h) \subseteq DOMAIN mem
       /\ mem[h] = snap[c].r["mxcsr"]
       /\ mem[h + 4] = snap[c].r["x87cw"]

\* C20: on x86 the save area of a suspended context always has the two
\* floating-point control cells, and they are written exactly when the
\* jump that suspended it had preserve_fpu set; a jump loads MXCSR and the
\* x87 control word from the target's cells exactly when the jump itself
\* has the flag set, whatever flag the target was suspended with. So a
\* context suspended with the flag clear and resumed with the flag set
\* runs with control values its suspension never stored.
C20_LoadFollowsResumingFlag ==
    IsX86(arch) =>
        /\ \A c \in Ctx :
              (status[c] = "suspended" \/ (c = cur /\ Resumed)) =>
                  /\ mem[FcAddr(c)] = snap[c].r[SP(arch)] - SaveAreaSize(arch)
                  /\ status[c] = "suspended" =>
                        IF snap[c].flag # 0 THEN FpStored(c)
                        ELSE FpCells(arch, mem[FcAddr(c)]) \cap DOMAIN mem = {}
        /\ (Arrived /\ last.flag = 0) =>
              \A r \in Range(FpCtl(arch)) : regs[r] = Jumper[r]
        /\ (Resumed /\ last.flag # 0 /\ snap[cur].flag # 0) =>
              Restored(Range(FpCtl(arch)))
        /\ (Resumed /\ last.flag # 0 /\ snap[cur].flag = 0) =>
              \A r \in Range(FpCtl(arch)) :
                  /\ regs[r] \in Garbage
                  /\ regs[r] # Mine[r]
                  /\ regs[r] # Jumper[r]

\* C20 witness: on x86_64 a context that suspended itself with
\* preserve_fpu clear has been resumed by a jump with preserve_fpu set.
C20_Witness ==
    /\ arch = "x86_64"
    /\ Resumed
    /\ last.flag = 1
    /\ snap[cur].flag = 0
    /\ regs["mxcsr"] \in Garbage

(***************************************************************************)
(* Claims about the floating-point control state of a fresh context        *)
(***************************************************************************)
\* content of cell x of memory m, NULL when the cell was never written
Cell(m, x) == IF x \in DOMAIN m THEN m[x] ELSE NULL

\* offset of a control register's cell in an x86 save area
FpSlot(r) == IF r = "mxcsr" THEN 0 ELSE 4

\* the floating-point control values the save area of context c holds
Seed(m, c, r) == Cell(m, HandleIn(m, c) + FpSlot(r))

\* C21: on x86 make_context stores the MXCSR and the x87 control word the
\* creating code has at that moment into the save area of the fresh
\* context; the two cells stay as they are while the context is fresh; a
\* first jump into it with preserve_fpu set starts it with these values,
\* and a first jump with the flag clear starts it with the values the
\* jumper has at its call.
C21_FreshFpSeed ==
    [][IsX86(arch) =>
        \A c \in Range(Made), r \in Range(FpCtl(arch)) :
            /\ (status[c] = "none" /\ status'[c] = "fresh") =>
                  /\ Seed(mem', c, r) = regs'[r]
                  /\ regs'[r] # NULL
            /\ (status[c] = "fresh" /\ status'[c] = "fresh") =>
                  Seed(mem', c, r) = Seed(mem, c, r)
            /\ (status[c] = "fresh" /\ status'[c] = "running") =>
                  /\ cur' = c
                  /\ last'.fresh
                  /\ regs'[r] = IF last'.flag # 0 THEN Seed(mem, c, r)
                                ELSE snap'[cur].r[r]]_vars

\* C21 witness: on x86_64 c1, running with another floating-point control
\* state than the one c2 was made under, has entered the fresh c2 with
\* preserve_fpu set, and c2 does not run with c1's state.
C21_Witness ==
    /\ arch = "x86_64"
    /\ Entered
    /\ cur = "c2" /\ last.from = "c1"
    /\ last.flag = 1
    /\ \A r \in Range(FpCtl(arch)) : regs[r] # Jumper[r]

(***************************************************************************)
(* Claims about moves between wrappers                                     *)
(***************************************************************************)
\* a message that was put into a wrapper once: all that happens to it
\* afterwards is moves, releases and destructions
WrappedOnce(m) == wrapped[m] = 1

\* wrappers destroyed while owning message m
DestroyedWith(m) == {w \in Wrapper : palive[w] = "dead" /\ discarded[w] = m}

\* C22 as stated: at most one wrapper owns a message, and the single
\* abandonment call on it comes only from the destruction of the wrapper
\* that owns it.
C22_Original ==
    \A m \in Msg :
        WrappedOnce(m) =>
            /\ Cardinality(Owners(m)) <= 1
            /\ Count(m) <= 1
            /\ Count(m) = 1 => DestroyedWith(m) # {}

\* this step destroys wrapper w
Destroys(w) == palive[w] = "live" /\ palive'[w] = "dead"

\* this step move-assigns another wrapper onto wrapper w
AssignsOnto(w) ==
    /\ palive[w] = "live" /\ palive'[w] = "live"
    /\ \E a \in Wrapper \ {w} :
          /\ palive[a] = "live"
          /\ ptr'[w] = ptr[a]
          /\ ptr'[a] = NULL

\* C22 amended: under any sequence of moves at most one wrapper owns a
\* message; destroying an empty wrapper calls AppendAndDestroySelf on
\* nothing and destroying the owner makes the one call, with an empty
\* buffer and a null socket; the single abandonment call on a message is
\* triggered only by the destruction of the wrapper that owns it or by a
\* move assignment onto that wrapper.
C22_OwnerDisposes ==
    /\ [](\A m \in Msg :
            WrappedOnce(m) =>
                /\ Cardinality(Owners(m)) <= 1
                /\ Count(m) <= 1
                /\ Count(m) = 1 => Owners(m) = {})
    /\ [][\A w \in Wrapper :
            Destroys(w) =>
                IF ptr[w] = NULL
                THEN ptrlog' = ptrlog /\ inflight' = inflight
                ELSE LET c == AppendAndDestroySelf(ptr[w], "dummy_buf",
                                                   FALSE, "ptr")
                     IN /\ ptrlog' = [ptrlog EXCEPT ![ptr[w]] =
                                         @ \o CallEvents(<<c>>)]
                        /\ inflight' = inflight \cup {c}]_vars
    /\ [][\A m \in Msg :
            (WrappedOnce(m) /\ Count(m)' > Count(m)) =>
                \E w \in Owners(m) :
                    /\ ptr'[w] # m
                    /\ Destroys(w) \/ AssignsOnto(w)]_vars

\* C22 witness: the typed wrapper 1 was move-assigned onto wrapper 3, then
\* destroyed empty; wrapper 3 was destroyed owning message 1. Each of the
\* messages 1 and 3 was called once.
C22_Witness ==
    /\ WrappedOnce(1) /\ WrappedOnce(3)
    /\ palive[1] = "dead" /\ discarded[1] = NULL
    /\ palive[3] = "dead" /\ discarded[3] = 1
    /\ Count(1) = 1 /\ Count(3) = 1
    /\ DestroyedWith(3) = {}

====
